---- MODULE Spec2Model ----
(***************************************************************************)
(* State-machine model of src/src/PlannerApp.tsx: the block collection of  *)
(* PlannerApp (addTemplateToDay, moveBlock, changeBlock, the active date,  *)
(* totalsByGoal and the totals bar) and the gesture state of TimeGrid and  *)
(* DraggableBlock (pointer handlers, handleDragStart, handleDragEnd).      *)
(***************************************************************************)
EXTENDS Integers, Sequences, FiniteSets, TLC

\* ------------------------------------------------------------------ bounds
MaxBlocks == 2

\* --------------------------------------------------------------- constants
DAY_START_MIN == 8 * 60
DAY_END_MIN == 24 * 60
SNAP_MIN == 30
GRID_MINUTES == DAY_END_MIN - DAY_START_MIN
SLOT_COUNT == GRID_MINUTES \div SNAP_MIN

\* an absent optional field (goalId?: string) and a null React state
Undefined == "undefined"
Null == "null"

\* rect.height of the grid element (className h-[960px]) and rect.top, the
\* page offset of the grid as getBoundingClientRect reports it
GridHeight == 960
RectTop == 100

\* the resize handles are 8px high (h-2) and start 4px outside the block
\* (-top-1 / -bottom-1)
HandlePx == 4

todayISO == "2024-01-01"

initialGoals ==
  << [id |-> "g-identity", title |-> "Identity App"],
     [id |-> "g-fitness", title |-> "Fitness"],
     [id |-> "g-relationships", title |-> "Relationships"],
     [id |-> "g-admin", title |-> "Admin"] >>

initialTemplates ==
  << [id |-> "bt-deep", title |-> "Deep Work", defaultDurationMin |-> 90, defaultGoalId |-> "g-identity"],
     [id |-> "bt-ex", title |-> "Exercise", defaultDurationMin |-> 60, defaultGoalId |-> "g-fitness"],
     [id |-> "bt-breakfast", title |-> "Breakfast", defaultDurationMin |-> 20, defaultGoalId |-> Undefined],
     [id |-> "bt-lunch", title |-> "Lunch", defaultDurationMin |-> 30, defaultGoalId |-> Undefined],
     [id |-> "bt-dinner", title |-> "Dinner", defaultDurationMin |-> 30, defaultGoalId |-> Undefined],
     [id |-> "bt-admin", title |-> "Admin", defaultDurationMin |-> 30, defaultGoalId |-> "g-admin"] >>

\* ------------------------------------------------------------------ inputs
\* values `b-${Math.random().toString(36).slice(2,9)}` can produce
RandomIds == {"b-k3f9x2a", "b-q"}
\* values of the date input
Dates == {"2024-01-01", "2024-01-02"}
\* indices of the palette button that is clicked
TemplateInputs == DOMAIN initialTemplates
CoreTemplateInputs == {1, 3}
GestureTemplateInputs == {1, 2}
\* newStart arguments of moveBlock
MoveInputs == {0, 494, 495, 1425}
CoreMoveInputs == {495}
\* clientY of pointer events
PointerYs == {RectTop + 2, RectTop + 20, RectTop + 58, RectTop + 80}
\* `next` arguments of changeBlock (Partial<ScheduledBlock>)
ChangeInputs == { [durationMin |-> 45], [goalId |-> "g-archived"] }
CoreChangeInputs == { [durationMin |-> 45] }

VARIABLES goals, templates, blocks, dateISO, lastCall,
          draggingId, dragging, resizing, press, active

vars == <<goals, templates, blocks, dateISO, lastCall,
          draggingId, dragging, resizing, press, active>>

gestureVars == <<draggingId, dragging, resizing, press, active>>

\* ----------------------------------------------------------------- helpers
clamp(n, min, max) ==
  LET inner == IF max < n THEN max ELSE n
  IN  IF min > inner THEN min ELSE inner

\* Math.round(mins / snap) * snap; Math.round(x) is floor(x + 1/2)
snapTo(mins, snap) == (((2 * mins) + snap) \div (2 * snap)) * snap

\* ------------------------------------------------------------ PlannerApp
dayBlocksOf(bs, d) == SelectSeq(bs, LAMBDA b : b.dateISO = d)

dayBlocks == dayBlocksOf(blocks, dateISO)

newBlockOf(tpl, id, d) ==
  [ id |-> id,
    dateISO |-> d,
    startMinOfDay |-> DAY_START_MIN,
    durationMin |-> tpl.defaultDurationMin,
    templateId |-> tpl.title,
    goalId |-> tpl.defaultGoalId,
    note |-> tpl.title ]

addTemplateToDay(bs, tpl, id, d) == Append(bs, newBlockOf(tpl, id, d))

moveBlock_dropsDuration(bs, id, newStart) ==
  LET snapped == snapTo(newStart, SNAP_MIN)
  IN  [ i \in DOMAIN bs |->
          IF bs[i].id = id
          THEN [bs[i] EXCEPT !.startMinOfDay = snapped, !.durationMin = SNAP_MIN]
          ELSE bs[i] ]

moveBlock(bs, id, newStart) ==
  LET snapped == snapTo(newStart, SNAP_MIN)
  IN  [ i \in DOMAIN bs |->
          IF bs[i].id = id THEN [bs[i] EXCEPT !.startMinOfDay = snapped]
          ELSE bs[i] ]

\* { ...b, ...next }
spread(b, next) ==
  [ f \in DOMAIN b |-> IF f \in DOMAIN next THEN next[f] ELSE b[f] ]

changeBlock(bs, id, next) ==
  [ i \in DOMAIN bs |-> IF bs[i].id = id THEN spread(bs[i], next) ELSE bs[i] ]

\* b.goalId || 'none'
goalKey(b) == IF b.goalId = Undefined THEN "none" ELSE b.goalId

mapGet_overwrites(map, g) == 0

\* map.get(g) || 0
mapGet(map, g) == IF g \in DOMAIN map THEN map[g] ELSE 0

\* map.set(g, v)
mapSet(map, g, v) ==
  [ k \in (DOMAIN map) \cup {g} |-> IF k = g THEN v ELSE map[k] ]

RECURSIVE totalsLoop(_, _, _)
totalsLoop(bs, i, map) ==
  IF i > Len(bs) THEN map
  ELSE totalsLoop(bs, i + 1,
                  mapSet(map, goalKey(bs[i]),
                         mapGet(map, goalKey(bs[i])) + bs[i].durationMin))

totalsByGoalOf(bs) == totalsLoop(bs, 1, [k \in {} |-> 0])

totalsByGoal == totalsByGoalOf(dayBlocks)

\* totals bar: one entry per goal, totalsByGoal.get(g.id) || 0
goalMinsShown(g) == mapGet(totalsByGoal, g.id)

\* totals bar: the Unassigned entry, rendered when totalsByGoal.get('none')
\* is truthy
unassignedMinsShown == mapGet(totalsByGoal, "none")

idsOf(bs) == { bs[i].id : i \in DOMAIN bs }

\* ---------------------------------------------------------------- TimeGrid
positionToStartMin(clientX, clientY) ==
  LET y == clamp(clientY - RectTop, 0, GridHeight)
      \* Math.floor(y / (rect.height / SLOT_COUNT))
      slotIndex == (y * SLOT_COUNT) \div GridHeight
      minsFromStart == slotIndex * SNAP_MIN
  IN  clamp(DAY_START_MIN + minsFromStart, DAY_START_MIN, DAY_END_MIN - SNAP_MIN)

\* style top: topPct%, height: heightPct% of the grid, as client coordinates
topPx(b) == RectTop + (((b.startMinOfDay - DAY_START_MIN) * GridHeight) \div GRID_MINUTES)
bottomPx(b) == topPx(b) + ((b.durationMin * GridHeight) \div GRID_MINUTES)

\* the block's box with its two handles, clipped by the grid (overflow-hidden)
covers(b, y) ==
  /\ y >= RectTop /\ y < RectTop + GridHeight
  /\ y >= topPx(b) - HandlePx /\ y < bottomPx(b) + HandlePx

\* which child of the block is under the pointer
partAt(b, y) ==
  IF y >= bottomPx(b) - HandlePx THEN "end"
  ELSE IF y < topPx(b) + HandlePx THEN "start"
  ELSE "body"

\* blocks are rendered in the order of `sorted` (stable, by startMinOfDay);
\* a later element is painted over an earlier one
paintedAfter(bs, j, i) ==
  \/ bs[j].startMinOfDay > bs[i].startMinOfDay
  \/ bs[j].startMinOfDay = bs[i].startMinOfDay /\ j > i

\* indices (in dayBlocks) of the block that receives a pointer event at y
hitAt(y) ==
  { i \in DOMAIN dayBlocks :
      /\ covers(dayBlocks[i], y)
      /\ \A j \in DOMAIN dayBlocks :
           (covers(dayBlocks[j], y) /\ j # i) => paintedAfter(dayBlocks, i, j) }

\* DraggableBlock instances exist for the blocks of the active date (key =
\* b.id); the state of an instance that is not rendered is the initial one
mounted(f, bs, d, init) ==
  [ id \in DOMAIN f |-> IF id \in idsOf(dayBlocksOf(bs, d)) THEN f[id] ELSE init ]

NoPress == [id |-> Null, part |-> "none", y |-> 0]
NoActive == [id |-> Null, y |-> 0]

\* the handler that ran last, whether the id it named was in state.blocks,
\* and the value it returned to its caller (every handler returns undefined)
Call(op, found) == [op |-> op, found |-> found, ret |-> "undefined"]

\* -------------------------------------------------------------------- Init
\* loadState() with nothing stored, dateISO = todayISO, no gesture
Init ==
  /\ goals = initialGoals
  /\ templates = initialTemplates
  /\ blocks = << >>
  /\ dateISO = todayISO
  /\ lastCall = Call("init", TRUE)
  /\ draggingId = Null
  /\ dragging = [id \in RandomIds |-> FALSE]
  /\ resizing = [id \in RandomIds |-> Null]
  /\ press = NoPress
  /\ active = NoActive

\* ----------------------------------------------------------------- actions
\* Palette button click
AddTemplateToDay(t, id) ==
  /\ Len(blocks) < MaxBlocks
  /\ blocks' = addTemplateToDay(blocks, templates[t], id, dateISO)
  /\ lastCall' = Call("addTemplateToDay", TRUE)
  /\ UNCHANGED <<goals, templates, dateISO, gestureVars>>

MoveBlock(id, newStart) ==
  /\ blocks' = moveBlock(blocks, id, newStart)
  /\ lastCall' = Call("moveBlock", id \in idsOf(blocks))
  /\ UNCHANGED <<goals, templates, dateISO, gestureVars>>

ChangeBlock(id, next) ==
  /\ blocks' = changeBlock(blocks, id, next)
  /\ lastCall' = Call("changeBlock", id \in idsOf(blocks))
  /\ UNCHANGED <<goals, templates, dateISO, gestureVars>>

\* the date input's onChange
SetDateISO(d) ==
  /\ d # dateISO
  /\ dateISO' = d
  /\ dragging' = mounted(dragging, blocks, d, FALSE)
  /\ resizing' = mounted(resizing, blocks, d, Null)
  /\ lastCall' = Call("setDateISO", TRUE)
  /\ UNCHANGED <<goals, templates, blocks, draggingId, press, active>>

\* pointer pressed on a block: DraggableBlock onPointerDown, or a handle's
\* onPointerDown (which stops propagation)
PointerDown(y) ==
  /\ press = NoPress
  /\ \E i \in hitAt(y) :
       LET b == dayBlocks[i]
           p == partAt(b, y)
       IN  /\ dragging' = IF p = "body" THEN [dragging EXCEPT ![b.id] = TRUE]
                          ELSE dragging
           /\ resizing' = IF p = "body" THEN resizing
                          ELSE [resizing EXCEPT ![b.id] = p]
           /\ press' = [id |-> b.id, part |-> p, y |-> y]
  /\ lastCall' = Call("onPointerDown", TRUE)
  /\ UNCHANGED <<goals, templates, blocks, dateISO, draggingId, active>>

\* the PointerSensor activates (distance 3): DndContext onDragStart
HandleDragStart ==
  /\ press.part = "body"
  /\ active = NoActive
  /\ draggingId' = press.id
  /\ active' = [id |-> press.id, y |-> press.y]
  /\ lastCall' = Call("handleDragStart", TRUE)
  /\ UNCHANGED <<goals, templates, blocks, dateISO, dragging, resizing, press>>

\* pointer released at y: DraggableBlock onPointerUp of the block under the
\* pointer, and DndContext onDragEnd when a drag is active
PointerUp(y) ==
  /\ press # NoPress
  /\ IF hitAt(y) = {}
     THEN UNCHANGED <<dragging, resizing>>
     ELSE \E i \in hitAt(y) :
            /\ dragging' = [dragging EXCEPT ![dayBlocks[i].id] = FALSE]
            /\ resizing' = [resizing EXCEPT ![dayBlocks[i].id] = Null]
  /\ IF active = NoActive
     THEN /\ lastCall' = Call("onPointerUp", TRUE)
          /\ UNCHANGED <<blocks, draggingId>>
     ELSE /\ blocks' = moveBlock(blocks, active.id, positionToStartMin(0, active.y))
          /\ lastCall' = Call("handleDragEnd", active.id \in idsOf(blocks))
          /\ draggingId' = Null
  /\ press' = NoPress
  /\ active' = NoActive
  /\ UNCHANGED <<goals, templates, dateISO>>

\* the gesture is aborted (pointercancel, pointer leaves the window, Escape):
\* no handler is registered for it
PointerCancel ==
  /\ press # NoPress
  /\ press' = NoPress
  /\ active' = NoActive
  /\ lastCall' = Call("cancel", TRUE)
  /\ UNCHANGED <<goals, templates, blocks, dateISO, draggingId, dragging, resizing>>

\* ---------------------------------------------------------- specifications
AddStep == \E t \in TemplateInputs, id \in RandomIds : AddTemplateToDay(t, id)
MoveStep == \E id \in RandomIds, m \in MoveInputs : MoveBlock(id, m)
ChangeStep == \E id \in RandomIds, n \in ChangeInputs : ChangeBlock(id, n)
DateStep == \E d \in Dates : SetDateISO(d)

Next == AddStep \/ MoveStep \/ ChangeStep \/ DateStep

Spec == Init /\ [][Next]_vars

CoreAddStep == \E t \in CoreTemplateInputs, id \in RandomIds : AddTemplateToDay(t, id)
CoreMoveStep == \E id \in RandomIds, m \in CoreMoveInputs : MoveBlock(id, m)

CoreChangeStep == \E id \in RandomIds, n \in CoreChangeInputs : ChangeBlock(id, n)

NextCore == CoreAddStep \/ CoreMoveStep \/ CoreChangeStep \/ DateStep

SpecCore == Init /\ [][NextCore]_vars

GestureAddStep == \E t \in GestureTemplateInputs, id \in RandomIds : AddTemplateToDay(t, id)
PointerDownStep == \E y \in PointerYs : PointerDown(y)
PointerUpStep == \E y \in PointerYs : PointerUp(y)

NextGesture ==
  \/ GestureAddStep
  \/ DateStep
  \/ PointerDownStep
  \/ HandleDragStart
  \/ PointerUpStep
  \/ PointerCancel

SpecGesture == Init /\ [][NextGesture]_vars

\* ------------------------------------------------------------- properties
RECURSIVE SumDuration(_, _)
SumDuration(bs, I) ==
  IF I = {} THEN 0
  ELSE LET i == CHOOSE k \in I : TRUE
       IN  bs[i].durationMin + SumDuration(bs, I \ {i})

RECURSIVE SumShown(_)
SumShown(I) ==
  IF I = {} THEN 0
  ELSE LET i == CHOOSE k \in I : TRUE
       IN  goalMinsShown(goals[i]) + SumShown(I \ {i})

OnActiveDate == { i \in DOMAIN blocks : blocks[i].dateISO = dateISO }

KeyOf(b) == IF b.goalId = Undefined THEN "none" ELSE b.goalId

\* nearest multiple of 30, halves rounded up
NearestSlot(m) == ((m + 15) \div 30) * 30

\* snap of the specification: NearestSlot, then clamped to [480, 1410]
ClampedSlot(m) ==
  IF NearestSlot(m) < 480 THEN 480
  ELSE IF NearestSlot(m) > 1410 THEN 1410 ELSE NearestSlot(m)

\* the minute of the day shown at client coordinate y of the grid
MinuteAt(y) == 480 + (((y - RectTop) * 960) \div GridHeight)

Max(a, b) == IF a > b THEN a ELSE b

\* C1: every stored block has a start that is a multiple of 30 and a
\* duration that is a multiple of 30 and at least 30.
C1_SnapAligned ==
  \A i \in DOMAIN blocks :
    /\ blocks[i].startMinOfDay % 30 = 0
    /\ blocks[i].durationMin % 30 = 0
    /\ blocks[i].durationMin >= 30

\* C2: moveBlock(id, minute) stores the minute rounded to the nearest
\* multiple of 30 and clamped to [480, 1410], so every stored start lies in
\* [480, 1410].
C2_MoveSnapsAndClamps ==
  [][ \A id \in RandomIds, m \in MoveInputs :
        MoveBlock(id, m) =>
          /\ \A i \in DOMAIN blocks :
               blocks[i].id = id => blocks'[i].startMinOfDay = ClampedSlot(m)
          /\ \A i \in DOMAIN blocks' :
               blocks'[i].startMinOfDay >= 480 /\ blocks'[i].startMinOfDay <= 1410 ]_vars

\* C3: when a drag gesture ends, the dragged block starts at the nearest
\* 30-minute multiple of the minute under the pointer at release.
C3_DragEndUsesReleasePosition ==
  [][ \A y \in PointerYs :
        (PointerUp(y) /\ active # NoActive) =>
          \A i \in DOMAIN blocks :
            blocks[i].id = active.id =>
              blocks'[i].startMinOfDay = NearestSlot(MinuteAt(y)) ]_vars

\* C4: moveBlock(id, newStart) changes nothing but the startMinOfDay of the
\* blocks with that id: their other fields, every other block, the number
\* of blocks, goals and templates stay as they were.
C4_MoveFrame ==
  [][ \A id \in RandomIds, m \in MoveInputs :
        MoveBlock(id, m) =>
          /\ Len(blocks') = Len(blocks)
          /\ goals' = goals
          /\ templates' = templates
          /\ \A i \in DOMAIN blocks :
               IF blocks[i].id = id
               THEN /\ blocks'[i].id = blocks[i].id
                    /\ blocks'[i].dateISO = blocks[i].dateISO
                    /\ blocks'[i].durationMin = blocks[i].durationMin
                    /\ blocks'[i].goalId = blocks[i].goalId
                    /\ blocks'[i].templateId = blocks[i].templateId
                    /\ blocks'[i].note = blocks[i].note
               ELSE blocks'[i] = blocks[i] ]_vars

\* a moved block (start 510, duration still that of its template) next to an
\* untouched block with another id on another date
C4_Witness ==
  \E i, j \in DOMAIN blocks :
    /\ blocks[i].startMinOfDay = 510
    /\ blocks[i].durationMin = 90
    /\ blocks[j].startMinOfDay = DAY_START_MIN
    /\ blocks[j].id # blocks[i].id
    /\ blocks[j].dateISO # blocks[i].dateISO

\* C5: a move or change that names an id absent from the collection returns
\* a NotFound failure to its caller (and leaves the collection unchanged).
C5_AbsentIdReportsNotFound ==
  (lastCall.op \in {"moveBlock", "changeBlock"} /\ ~lastCall.found)
    => lastCall.ret = "NotFound"

\* C6: whenever no gesture is in progress (after a release or a cancel) the
\* gesture state is idle: no draggingId, no dragging flag, no resizing flag.
C6_IdleAfterTerminalEvent ==
  press = NoPress =>
    /\ draggingId = Null
    /\ \A id \in RandomIds : dragging[id] = FALSE /\ resizing[id] = Null

\* C7: the totals map has exactly the goal keys of the active date's blocks
\* and maps each key to the sum of the durations of the active date's blocks
\* with that key.
C7_TotalsAreSums ==
  /\ DOMAIN totalsByGoal = { KeyOf(blocks[i]) : i \in OnActiveDate }
  /\ \A k \in DOMAIN totalsByGoal :
       totalsByGoal[k] =
         SumDuration(blocks, { i \in OnActiveDate : KeyOf(blocks[i]) = k })

\* two blocks of one goal on the active date, one moved and one resized, and
\* their summed total
C7_Witness ==
  /\ Len(dayBlocks) = 2
  /\ dayBlocks[1].goalId = "g-identity" /\ dayBlocks[2].goalId = "g-identity"
  /\ dayBlocks[1].startMinOfDay = 510
  /\ dayBlocks[2].durationMin = 45
  /\ totalsByGoal["g-identity"] = 135

\* C8: a gesture started on the end handle and released at minute newEnd
\* keeps the start and sets the duration to max(30, snap(newEnd) - start).
C8_EndResizeSetsDuration ==
  [][ \A y \in PointerYs :
        (PointerUp(y) /\ press.part = "end") =>
          \A i \in DOMAIN blocks :
            blocks[i].id = press.id =>
              /\ blocks'[i].startMinOfDay = blocks[i].startMinOfDay
              /\ blocks'[i].durationMin =
                   Max(30, ClampedSlot(MinuteAt(y)) - blocks[i].startMinOfDay) ]_vars

\* C9: the ids of the stored blocks are pairwise distinct.
C9_UniqueIds ==
  \A i, j \in DOMAIN blocks : i # j => blocks[i].id # blocks[j].id

\* C10: the totals shown for the goals plus the unassigned total add up to
\* the total duration of the active date's blocks.
C10_ShownTotalsCoverDay ==
  SumShown(DOMAIN goals) + unassignedMinsShown = SumDuration(blocks, OnActiveDate)

====
